---------------------------- MODULE Spec2Model ----------------------------
(***************************************************************************)
(* State-machine model of geometric_sampling.clustering.agg.Agg            *)
(* (src/geometric_sampling/clustering/agg.py): the balance-repair loop of  *)
(* Agg.fit over a fractional membership matrix.                            *)
(*                                                                         *)
(* Numbers.  The program computes in IEEE doubles; the model computes in   *)
(* exact rationals <<numerator, denominator>> (denominator > 0, lowest     *)
(* terms).  Two program constants are too fine for 32-bit integers to      *)
(* multiply with, so they are never multiplied out:                        *)
(*   - the threshold 10^-tolerance is only ever compared against, and the  *)
(*     comparison n/d > 1/T is decided as T > d \div n;                    *)
(*   - the stabiliser 1e-9 of _transfer_score stays symbolic: a score is   *)
(*     num / (c0 + c1*eps + c2*eps^2), and two scores are ordered by the   *)
(*     exact sign of an integer polynomial in 1/eps = 10^9.                *)
(* Indices are 1-based (unit 1..N, cluster 1..k) where Python's are        *)
(* 0-based.                                                                *)
(***************************************************************************)
EXTENDS Integers, Sequences, FiniteSets

VARIABLES
    k,            \* self.k
    tolerance,    \* self.tolerance
    Y_features,   \* self.Y_features : sequence of rows (coordinates)
    X_features,   \* self.X_features : sequence of rows (auxiliary values)
    weights,      \* self.weights
    m,            \* self.m  = X_features.shape[1]
    N,            \* self.N  = X_features.shape[0]
    centroids,    \* self.centroids  : k rows
    labels,       \* self.labels     : one cluster per row of Y
    membership,   \* self.membership : N rows of k entries
    Tij,          \* self.Tij        : k rows of m entries
    Ti,           \* self.Ti         : k entries
    iter_,        \* local iter_ of fit
    pc,           \* "constructed", "loop" (at the while test), "returned", "raised"
    kmeans_calls, \* how many times the hard-clustering routine has been invoked
    last          \* the transfer the latest loop iteration executed, NoRecord if it skipped

vars == <<k, tolerance, Y_features, X_features, weights, m, N, centroids,
          labels, membership, Tij, Ti, iter_, pc, kmeans_calls, last>>

-----------------------------------------------------------------------------
(* Bounds of the model and constants of the program.                       *)

MaxN == 3          \* most units in the general input families
MaxY == 2          \* coordinates of the four-unit scenario range over 0..MaxY
max_iter == 100    \* the literal 100 of the while test
default_tolerance == 9
stabilizer_exp == 9   \* the score's stabiliser is 1e-9 = 10^-stabilizer_exp

None == <<>>       \* Python's None for a field not yet assigned

-----------------------------------------------------------------------------
(* Exact rationals <<numerator, denominator>> in lowest terms with a       *)
(* positive denominator, standing for the floats of the program.  Each     *)
(* operator binds its arguments once (p \in {<<a, b>>}), so an argument    *)
(* expression is evaluated a single time however often it is used.         *)

Abs(n) == IF n < 0 THEN -n ELSE n

RECURSIVE GCD(_, _)
GCD(a, b) ==
    CHOOSE g \in { IF p[2] = 0 THEN p[1] ELSE GCD(p[2], p[1] % p[2]) :
                   p \in {<<a, b>>} } : TRUE

Rat(n, d) ==
    CHOOSE r \in { <<(IF p[2] < 0 THEN -p[1] ELSE p[1]) \div p[3], Abs(p[2]) \div p[3]>> :
                   p \in { <<q[1], q[2], IF q[2] = 1 THEN 1 ELSE GCD(Abs(q[1]), Abs(q[2]))>> :
                           q \in {<<n, d>>} } } : TRUE

R(n) == <<n, 1>>
Zero == <<0, 1>>
One == <<1, 1>>

RAdd(a, b) ==
    CHOOSE r \in { Rat(p[1][1] * p[2][2] + p[2][1] * p[1][2], p[1][2] * p[2][2]) :
                   p \in {<<a, b>>} } : TRUE
RNeg(a) == CHOOSE r \in { <<-p[1], p[2]>> : p \in {a} } : TRUE
RSub(a, b) == RAdd(a, RNeg(b))
RMul(a, b) ==
    CHOOSE r \in { Rat(p[1][1] * p[2][1], p[1][2] * p[2][2]) : p \in {<<a, b>>} } : TRUE
RDiv(a, b) ==
    CHOOSE r \in { Rat(p[1][1] * p[2][2], p[1][2] * p[2][1]) : p \in {<<a, b>>} } : TRUE
RAbs(a) == CHOOSE r \in { <<Abs(p[1]), p[2]>> : p \in {a} } : TRUE
RLt(a, b) == \E p \in {<<a, b>>} : p[1][1] * p[2][2] < p[2][1] * p[1][2]
RLe(a, b) == \E p \in {<<a, b>>} : p[1][1] * p[2][2] <= p[2][1] * p[1][2]
RMin(a, b) == CHOOSE r \in { IF RLt(p[2], p[1]) THEN p[2] ELSE p[1] : p \in {<<a, b>>} } : TRUE
RMax(a, b) == CHOOSE r \in { IF RLt(p[1], p[2]) THEN p[2] ELSE p[1] : p \in {<<a, b>>} } : TRUE

RECURSIVE RSum(_)
RSum(s) == IF s = <<>> THEN Zero ELSE RAdd(s[1], RSum(Tail(s)))

RECURSIVE LCM3(_)
Lcm(a, b) == (a \div GCD(a, b)) * b
LCM3(s) == IF s = <<>> THEN 1 ELSE Lcm(s[1][2], LCM3(Tail(s)))

(* x > 10^-tol, x >= -(10^-tol), x <= 10^-tol, |x| < 10^-tol, decided      *)
(* without multiplying by 10^tol.                                          *)
GtTol(x, tol) == x[1] > 0 /\ (x[2] \div x[1]) < 10 ^ tol
GeNegTol(x, tol) == ~GtTol(RNeg(x), tol)
LeTol(x, tol) == ~GtTol(x, tol)
AbsLtTol(x, tol) == x[1] = 0 \/ 10 ^ tol <= ((x[2] - 1) \div Abs(x[1]))


-----------------------------------------------------------------------------
(* Floats that may be +inf.  A finite score keeps the stabiliser symbolic: *)
(* its value is num / (den[1] + den[2]*eps + den[3]*eps^2), eps = 1e-9.    *)

Finite(num, den) == [inf |-> FALSE, num |-> num, den |-> den]
np_inf == [inf |-> TRUE, num |-> One, den |-> <<Zero, Zero, Zero>>]
float(n) == Finite(R(n), <<One, Zero, Zero>>)

(* Sign (-1, 0, 1) of p[1] + p[2]*eps + p[3]*eps^2 for rational p[..]:     *)
(* the sign of a0*E^2 + a1*E + a2 with E = 1/eps, found by carrying in     *)
(* base E so that nothing is multiplied by E.                              *)
PolySign(p) ==
    LET E  == 10 ^ stabilizer_exp
        L  == LCM3(p)
        a0 == p[1][1] * (L \div p[1][2])
        a1 == p[2][1] * (L \div p[2][2])
        a2 == p[3][1] * (L \div p[3][2])
        r2 == a2 % E
        b1 == a1 + (a2 \div E)
        r1 == b1 % E
        b0 == a0 + (b1 \div E)
    IN  IF b0 > 0 THEN 1
        ELSE IF b0 < 0 THEN -1
        ELSE IF r1 > 0 \/ r2 > 0 THEN 1 ELSE 0

(* a < b as floats.  Denominators are sums of weighted squares, positive   *)
(* on every input of the model, so a < b iff a.num*b.den - b.num*a.den < 0 *)
ScoreLt(a, b) ==
    IF a.inf THEN FALSE
    ELSE IF b.inf THEN TRUE
    ELSE PolySign([j \in 1..3 |->
             RSub(RMul(a.num, b.den[j]), RMul(b.num, a.den[j]))]) < 0

-----------------------------------------------------------------------------
(* numpy broadcasting of 1-D arrays and of leading axes.                   *)

Broadcastable(a, b) == a = b \/ a = 1 \/ b = 1
BLen(a, b) == IF a >= b THEN a ELSE b
At(v, j) == IF Len(v) = 1 THEN v[1] ELSE v[j]

-----------------------------------------------------------------------------
(* The methods of Agg, as functions of the fields they read.  M, C, T and  *)
(* TiV stand for self.membership, self.centroids, self.Tij and self.Ti;    *)
(* tol for self.tolerance.                                                 *)

_generate_membership(labels_) ==
    [j \in 1..N |-> [c \in 1..k |-> IF labels_[j] = c THEN One ELSE Zero]]

_generate_Tij(M) ==
    [c \in 1..k |-> [j \in 1..m |->
        RSum([i \in 1..N |-> RMul(R(X_features[i][j]), M[i][c])])]]

_generate_Ti(T) ==
    [c \in 1..k |->
        RSum([j \in 1..BLen(Len(weights), m) |->
                 RMul(R(At(weights, j)), At(T[c], j))])]

(* np.sum(self.weights * array**2); the entries of array are a + b*eps,    *)
(* given as <<a, b>>, and the result is a polynomial in eps.               *)
_weighet_norm(array) ==
    LET n == BLen(Len(weights), Len(array))
        w(j) == R(At(weights, j))
    IN  << RSum([j \in 1..n |-> RMul(w(j), RMul(At(array, j)[1], At(array, j)[1]))]),
           RSum([j \in 1..n |-> RMul(w(j), RMul(R(2), RMul(At(array, j)[1], At(array, j)[2])))]),
           RSum([j \in 1..n |-> RMul(w(j), RMul(At(array, j)[2], At(array, j)[2]))]) >>

_minimum_percent(T, data_index, from_index, to_index) ==
    LET n == BLen(Len(weights), m)
        x(j) == R(At(X_features[data_index], j))
        w(j) == R(At(weights, j))
    IN  RDiv(RSum([j \in 1..n |->
                 RMul(RMul(w(j), x(j)),
                      RSub(At(T[from_index], j), At(T[to_index], j)))]),
             RMul(R(2), RSum([j \in 1..n |-> RMul(w(j), RMul(x(j), x(j)))])))

_zero_percent(T, data_index, cluster) ==
    LET n == BLen(Len(weights), m)
        x(j) == R(At(X_features[data_index], j))
        w(j) == R(At(weights, j))
    IN  RDiv(RSum([j \in 1..n |-> RMul(RMul(w(j), x(j)), At(T[cluster], j))]),
             RSum([j \in 1..n |-> RMul(w(j), RMul(x(j), x(j)))]))

(* np.linalg.norm(Y[i] - C[c]) ** 2                                        *)
NormSq(data_indx, center) ==
    RSum([dd \in 1..Len(center) |->
        LET df == RSub(R(Y_features[data_indx][dd]), center[dd])
        IN  RMul(df, df)])

_transfer_score(C, T, tol, data_indx, current_cluster_indx, new_cluster_indx) ==
    IF GtTol(_minimum_percent(T, data_indx, current_cluster_indx, new_cluster_indx), tol)
    THEN Finite(
            RSub(NormSq(data_indx, C[new_cluster_indx]),
                 NormSq(data_indx, C[current_cluster_indx])),
            _weighet_norm([j \in 1..m |->
                <<RSub(T[current_cluster_indx][j], T[new_cluster_indx][j]), One>>]))
    ELSE np_inf

(* np.argmin: the first index of a least entry.                            *)
argmin(scores) ==
    CHOOSE j \in 1..Len(scores) :
        /\ \A j2 \in 1..Len(scores) : ~ScoreLt(scores[j2], scores[j])
        /\ \A j2 \in 1..(j - 1) : ScoreLt(scores[j], scores[j2])

(* The rows (cost, i, j_old, j_new_min) collected by _get_transfer_records *)
costs(M, C, T, tol) ==
    UNION { { <<scores[argmin(scores)], i_old[1], i_old[2], argmin(scores)>> :
              scores \in { [j_new \in 1..k |->
                  _transfer_score(C, T, tol, i_old[1], i_old[2], j_new)] } } :
            i_old \in {p \in (1..N) \X (1..k) : M[p[1]][p[2]] # Zero} }

(* _get_transfer_records(top_m=1): costs[np.argsort(costs[:, 0])][:1, 1:]  *)
(* as integers.  The cost column is dropped.  argsort's order among equal  *)
(* costs is not specified by numpy (its default sort is not stable), so    *)
(* every row of least cost is a possible first row: the set of the arrays  *)
(* the call can return.                                                    *)
_get_transfer_records(M, C, T, tol) ==
    UNION { { << <<r[2], r[3], r[4]>> >> :
              r \in {r \in cs : \A q \in cs : ~ScoreLt(q[1], r[1])} } :
            cs \in {costs(M, C, T, tol)} }

_no_transfer_possible(transfer_records) ==
    float(transfer_records[1][1]) = np_inf

(* A faulty _is_transfer_possible that rejects every record.               *)
_is_transfer_possible_never(TiV, tol, from_cluster, to_cluster) == FALSE

_is_transfer_possible(TiV, tol, from_cluster, to_cluster) ==
    GtTol(RAbs(RSub(TiV[from_cluster], TiV[to_cluster])), tol)

_stop_codition(TiV, tol) == \A c \in 1..k : AbsLtTol(TiV[c], tol)

(* The first branch of _transfer: both totals on the same side of zero.    *)
SameSide(TiV, tol, from_index, to_index) ==
    \/ GeNegTol(TiV[from_index], tol) /\ GeNegTol(TiV[to_index], tol)
    \/ LeTol(TiV[from_index], tol) /\ LeTol(TiV[to_index], tol)

transfer_percent(M, T, TiV, tol, data_index, from_index, to_index) ==
    IF SameSide(TiV, tol, from_index, to_index)
    THEN RMin(M[data_index][from_index],
              _minimum_percent(T, data_index, from_index, to_index))
    ELSE RMin(RMin(M[data_index][from_index],
                   RMax(Zero, _zero_percent(T, data_index, from_index))),
              RMax(Zero, RNeg(_zero_percent(T, data_index, to_index))))

(* A faulty _transfer that credits the target and forgets to debit the     *)
(* source.                                                                 *)
_transfer_without_debit(M, T, TiV, tol, data_index, from_index, to_index) ==
    LET tp == transfer_percent(M, T, TiV, tol, data_index, from_index, to_index)
    IN  [M EXCEPT ![data_index][to_index] = RAdd(@, tp)]

(* A faulty _transfer with the two signs exchanged.                        *)
_transfer_reversed(M, T, TiV, tol, data_index, from_index, to_index) ==
    LET tp == transfer_percent(M, T, TiV, tol, data_index, from_index, to_index)
    IN  [M EXCEPT ![data_index][from_index] = RAdd(@, tp),
                  ![data_index][to_index] = RSub(@, tp)]

_transfer(M, T, TiV, tol, data_index, from_index, to_index) ==
    LET tp == transfer_percent(M, T, TiV, tol, data_index, from_index, to_index)
    IN  [M EXCEPT ![data_index][from_index] = RSub(@, tp),
                  ![data_index][to_index] = RAdd(@, tp)]

(* np.mean(Y[:, :, None] * membership[:, None, :], axis=0).T               *)
_update_centroids(M) ==
    LET rows == BLen(Len(Y_features), N)
    IN  [c \in 1..k |-> [dd \in 1..Len(Y_features[1]) |->
            RDiv(RSum([i \in 1..rows |->
                     RMul(R(At(Y_features, i)[dd]), At(M, i)[c])]),
                 R(rows))]]


-----------------------------------------------------------------------------
(* The hard-clustering collaborator (sklearn's KMeans), by its contract:   *)
(* a label in 1..k for every row of Y with no cluster left empty, centres  *)
(* that are the means of their clusters, and every row at least as near to *)
(* its own centre as to any other (a fixed point of Lloyd's iteration).    *)
(* Which fixed point it returns is its own (seeded) choice.                *)

ClusterMean(Y, labels_, c) ==
    LET members == {i \in 1..Len(Y) : labels_[i] = c}
        n == Cardinality(members)
    IN  [dd \in 1..Len(Y[1]) |->
            RDiv(RSum([i \in 1..Len(Y) |->
                     IF i \in members THEN R(Y[i][dd]) ELSE Zero]),
                 R(n))]

DistSq(y, center) ==
    RSum([dd \in 1..Len(y) |->
        LET df == RSub(R(y[dd]), center[dd]) IN RMul(df, df)])

KMeans(Y, n_clusters) ==
    { [cluster_centers_ |-> [c \in 1..n_clusters |-> ClusterMean(Y, lab, c)],
       labels_ |-> lab] :
      lab \in { l \in [1..Len(Y) -> 1..n_clusters] :
                  /\ \A c \in 1..n_clusters : \E i \in 1..Len(Y) : l[i] = c
                  /\ \A i \in 1..Len(Y) : \A c \in 1..n_clusters :
                        RLe(DistSq(Y[i], ClusterMean(Y, l, l[i])),
                            DistSq(Y[i], ClusterMean(Y, l, c))) } }

-----------------------------------------------------------------------------
(* The arguments fit is called with.                                       *)

Tolerances == {0, default_tolerance}

(* n units on a line, at 0, 1, 4, 9, ...                                   *)
Spread(n) == [i \in 1..n |-> <<(i - 1) * (i - 1)>>]

(* One auxiliary variable of unit size and either sign, unit weight.       *)
SingleAux ==
    UNION { { [Y |-> Spread(n), X |-> x, w |-> <<1>>] :
              x \in [1..n -> {<<-1>>, <<1>>}] } : n \in 2..MaxN }

(* Two auxiliary variables of unit weight; odd units carry one unit of the *)
(* first, even units one unit of the second, of either sign.               *)
TwoAux ==
    UNION { { [Y |-> Spread(n),
               X |-> [i \in 1..n |-> IF i % 2 = 1 THEN <<sg[i], 0>> ELSE <<0, sg[i]>>],
               w |-> <<1, 1>>] :
              sg \in [1..n -> {-1, 1}] } : n \in 2..MaxN }

(* Two units with opposite rows whose weighted totals are zero.            *)
Opposed ==
    { [Y |-> Spread(2), X |-> <<r, <<-r[1], -r[2]>> >>, w |-> <<1, 1>>] :
      r \in {<<1, -1>>, <<-1, 1>>} }

(* The four-unit scenario: X = [[1],[1],[-1],[-1]], w = [1], on any        *)
(* geometry of four points in line order with coordinates in 0..MaxY and   *)
(* the second unit left of the third.                                      *)
ScenarioX == << <<1>>, <<1>>, <<-1>>, <<-1>> >>
Scenario ==
    { [Y |-> [i \in 1..4 |-> <<y[i]>>], X |-> ScenarioX, w |-> <<1>>] :
      y \in {y \in [1..4 -> 0..MaxY] :
              y[1] <= y[2] /\ y[2] < y[3] /\ y[3] <= y[4]} }

(* Calls whose shapes disagree: Y and X with different numbers of rows, and *)
(* three weights for two auxiliary columns.                                *)
RowMismatch ==
    UNION { { [Y |-> Spread(p[1]), X |-> [i \in 1..p[2] |-> <<sg[i]>>], w |-> <<1>>] :
              sg \in [1..p[2] -> {-1, 1}] } :
            p \in {q \in (2..MaxN) \X (2..MaxN) : q[1] # q[2]} }
WeightMismatch ==
    { [Y |-> Spread(2), X |-> << <<sg[1], 0>>, <<0, sg[2]>> >>, w |-> <<1, 1, 1>>] :
      sg \in [1..2 -> {-1, 1}] }

FitInputs ==
    SingleAux \cup TwoAux \cup Opposed \cup Scenario \cup RowMismatch \cup WeightMismatch

-----------------------------------------------------------------------------
(* The state machine.                                                      *)

NoRecord == [i |-> 0, from |-> 0, to |-> 0, executed |-> FALSE,
             finite |-> FALSE, same_side |-> FALSE]

(* Agg(k, tolerance=...) with initial_centroids left None: lines 7-22.     *)
Init ==
    /\ k = 2
    /\ tolerance \in Tolerances
    /\ Y_features = None /\ X_features = None /\ weights = None
    /\ m = 0 /\ N = 0
    /\ centroids = None /\ labels = None /\ membership = None
    /\ Ti = None /\ Tij = None
    /\ iter_ = 0
    /\ pc = "constructed"
    /\ kmeans_calls = 0
    /\ last = NoRecord

(* fit, lines 145-164: store the arguments, run the hard clustering, seed  *)
(* the membership and the totals.                                          *)
fit_seed ==
    /\ pc = "constructed"
    /\ UNCHANGED <<k, tolerance, last>>
    /\ \E inp \in FitInputs : \E kmeans \in KMeans(inp.Y, k) :
        /\ Y_features' = inp.Y
        /\ X_features' = inp.X
        /\ weights' = inp.w
        /\ m' = Len(inp.X[1])
        /\ N' = Len(inp.X)
        /\ kmeans_calls' = kmeans_calls + 1
        /\ centroids' = kmeans.cluster_centers_
        /\ labels' = kmeans.labels_
        /\ iter_' = 0
        /\ IF Len(inp.X) > Len(kmeans.labels_)
           THEN \* self.labels[j] is out of range in _generate_membership
                /\ membership' = None /\ Tij' = None /\ Ti' = None
                /\ pc' = "raised"
           ELSE /\ membership' = _generate_membership(kmeans.labels_)'
                /\ Tij' = _generate_Tij(membership)'
                /\ IF ~Broadcastable(Len(inp.w), Len(inp.X[1]))
                   THEN \* weights[np.newaxis, :] * Tij cannot be broadcast
                        Ti' = None /\ pc' = "raised"
                   ELSE Ti' = _generate_Ti(Tij)' /\ pc' = "loop"

(* One pass of the while body, lines 171-180, on the loop state s for the  *)
(* array transfer_records that _get_transfer_records returned.             *)
loop_body(s, tol, transfer_records) ==
    IF _no_transfer_possible(transfer_records)
    THEN [s EXCEPT !.pc = "returned"]
    ELSE
      LET data_index == transfer_records[1][1]
          from_cluster_index == transfer_records[1][2]
          to_cluster_index == transfer_records[1][3]
          possible == _is_transfer_possible(s.Ti, tol, from_cluster_index, to_cluster_index)
          M2 == IF possible
                THEN _transfer(s.membership, s.Tij, s.Ti, tol,
                               data_index, from_cluster_index, to_cluster_index)
                ELSE s.membership
          T2 == IF possible THEN _generate_Tij(M2) ELSE s.Tij
          Ti2 == IF possible THEN _generate_Ti(T2) ELSE s.Ti
          rec == IF possible
                 THEN [i |-> data_index, from |-> from_cluster_index,
                       to |-> to_cluster_index, executed |-> TRUE,
                       finite |-> ~_transfer_score(s.centroids, s.Tij, tol, data_index,
                                      from_cluster_index, to_cluster_index).inf,
                       same_side |-> SameSide(s.Ti, tol, from_cluster_index,
                                              to_cluster_index)]
                 ELSE NoRecord
      IN  IF Broadcastable(Len(Y_features), N)
          THEN [membership |-> M2, Tij |-> T2, Ti |-> Ti2,
                centroids |-> _update_centroids(M2),
                iter_ |-> s.iter_ + 1, pc |-> "loop", last |-> rec]
          ELSE \* Y and membership cannot be broadcast in _update_centroids
               [membership |-> M2, Tij |-> T2, Ti |-> Ti2,
                centroids |-> s.centroids,
                iter_ |-> s.iter_, pc |-> "raised", last |-> rec]

LoopState ==
    [membership |-> membership, Tij |-> Tij, Ti |-> Ti, centroids |-> centroids,
     iter_ |-> iter_, pc |-> pc, last |-> last]

(* Faulty while tests: one without the iteration cap, one that ignores the *)
(* stop condition.                                                         *)
loop_continues_uncapped(s, tol) == ~_stop_codition(s.Ti, tol)
loop_continues_ignoring_stop(s, tol) == s.iter_ < max_iter

(* The while test of line 166.                                             *)
loop_continues(s, tol) == ~_stop_codition(s.Ti, tol) /\ s.iter_ < max_iter

fit_iterate ==
    /\ pc = "loop"
    /\ loop_continues(LoopState, tolerance)
    /\ \E transfer_records \in
            _get_transfer_records(membership, centroids, Tij, tolerance) :
         \E s \in {loop_body(LoopState, tolerance, transfer_records)} :
             /\ membership' = s.membership
             /\ Tij' = s.Tij
             /\ Ti' = s.Ti
             /\ centroids' = s.centroids
             /\ iter_' = s.iter_
             /\ pc' = s.pc
             /\ last' = s.last
    /\ UNCHANGED <<k, tolerance, Y_features, X_features, weights, m, N,
                   labels, kmeans_calls>>

fit_return ==
    /\ pc = "loop"
    /\ ~loop_continues(LoopState, tolerance)
    /\ pc' = "returned"
    /\ UNCHANGED <<k, tolerance, Y_features, X_features, weights, m, N,
                   centroids, labels, membership, Tij, Ti, iter_,
                   kmeans_calls, last>>

(* The loop of lines 166-180 run as a whole at tolerance tol.  hist[l + 1] *)
(* is the set of loop states the run can be in at the while test after l   *)
(* iterations.                                                             *)
loop_successors(F, tol) ==
    UNION { { [loop_body(s, tol, transfer_records) EXCEPT !.last = NoRecord] :
              transfer_records \in _get_transfer_records(
                  s.membership, s.centroids, s.Tij, tol) } :
            s \in {s \in F : loop_continues(s, tol)} }

at_iteration(S, n) == { [s EXCEPT !.iter_ = n] : s \in S }

(* The iteration counts at which a run of hist leaves the loop: the while  *)
(* test fails, or the body breaks.                                         *)
exit_levels(hist, tol) ==
    { l \in 0..(Len(hist) - 1) :
        \E s \in hist[l + 1] :
            \/ ~loop_continues(s, tol)
            \/ \E succ \in loop_successors({s}, tol) : succ.pc = "returned" }

(* The numbers of iterations with which the loop can end.  When the states *)
(* after the next iteration are, but for iter_, those of an earlier test   *)
(* hist[j], the run repeats from there with period Len(hist) - j + 1 until *)
(* the cap of the while test ends it.                                      *)
RECURSIVE iterations_at_exit(_, _)
iterations_at_exit(hist, tol) ==
    UNION { UNION {
        IF nx = {} THEN exit_levels(h, tol)
        ELSE IF \E j \in 1..Len(h) : at_iteration(h[j], Len(h)) = nx
        THEN UNION { exit_levels(h, tol) \cup {max_iter}
                     \cup { x \in 0..max_iter :
                              \E l \in exit_levels(h, tol) :
                                  l >= j - 1 /\ x >= l
                                  /\ (x - l) % (Len(h) - j + 1) = 0 } :
                     j \in { CHOOSE j \in 1..Len(h) :
                                 at_iteration(h[j], Len(h)) = nx } }
        ELSE iterations_at_exit(Append(h, nx), tol) :
        nx \in { {s \in loop_successors(h[Len(h)], tol) : s.pc = "loop"} } } :
        h \in {hist} }

(* The loop state in which fit enters its loop for the current arguments   *)
(* and hard clustering (lines 159-164).                                    *)
SeedState ==
    [membership |-> _generate_membership(labels),
     Tij |-> _generate_Tij(_generate_membership(labels)),
     Ti |-> _generate_Ti(_generate_Tij(_generate_membership(labels))),
     centroids |-> [c \in 1..k |-> ClusterMean(Y_features, labels, c)],
     iter_ |-> 0, pc |-> "loop", last |-> NoRecord]

Next == fit_seed \/ fit_iterate \/ fit_return

Spec == Init /\ [][Next]_vars

-----------------------------------------------------------------------------
(* Properties.                                                             *)

Seeded == membership # None
RowSum(i) == RSum(membership[i])
Converged == _stop_codition(Ti, tolerance)
AtLoopTest == pc = "loop"
Candidates == costs(membership, centroids, Tij, tolerance)
AllInfinite == \A r \in Candidates : r[1].inf

(* C1.  Row-sum invariant: once the seed membership is built, and after    *)
(* every iteration whether its transfer was executed or skipped, every row *)
(* of the membership matrix sums to exactly 1.                             *)
C1_row_sums_are_one == Seeded => \A i \in 1..N : RowSum(i) = One

(* A state after an executed transfer that left a unit split over clusters *)
C1_fractional_row_reached ==
    /\ Seeded /\ last.executed
    /\ \E i \in 1..N : \E c \in 1..k : membership[i][c] \notin {Zero, One}

(* C2.  No-feasible-transfer termination: an iteration in which every      *)
(* collected record has score +inf leaves the loop in that iteration, with *)
(* M, Tij and Ti unchanged and no further iteration.                       *)
C2_no_feasible_transfer_terminates ==
    [][(AtLoopTest /\ loop_continues(LoopState, tolerance) /\ AllInfinite)
          => (pc' = "returned" /\ membership' = membership /\ Tij' = Tij
              /\ Ti' = Ti /\ iter_' = iter_)]_vars

(* An iteration well into a run whose records all have score +inf.         *)
C2_stalled_run_still_iterating ==
    AtLoopTest /\ iter_ = max_iter - 1 /\ ~Converged /\ AllInfinite

(* C3.  Termination guarantee: the loop of fit runs at most max_iter       *)
(* iterations on every input, converged or not.                            *)
C3_at_most_max_iter_iterations ==
    /\ iter_ <= max_iter
    /\ (AtLoopTest /\ iter_ = max_iter) => ~loop_continues(LoopState, tolerance)

(* A run that returned at the cap without having converged.                *)
C3_cap_reached_unconverged ==
    pc = "returned" /\ iter_ = max_iter /\ ~Converged

(* C4.  Membership entries stay in the valid range: every entry of M lies  *)
(* in [0, 1] in every state of fit.                                        *)
C4_entries_in_unit_interval ==
    Seeded => \A i \in 1..N : \A c \in 1..k :
                 RLe(Zero, membership[i][c]) /\ RLe(membership[i][c], One)

(* C5.  Idempotence at convergence, as stated: whenever max |Ti| is below  *)
(* the threshold at the loop test, every candidate (i, j_old, j_new) has   *)
(* score +inf.                                                             *)
C5_converged_implies_all_infinite ==
    (AtLoopTest /\ Converged) => AllInfinite

(* C5, amended: whenever max |Ti| is below the threshold at the loop test, *)
(* fit leaves the loop from that state without changing M; the scoring     *)
(* step is not run, and some candidates may still have a finite score.     *)
C5_converged_exits_without_mutation ==
    [][(AtLoopTest /\ Converged)
          => (pc' = "returned" /\ membership' = membership)]_vars

(* A run that returned converged although a candidate had a finite score.  *)
C5_converged_with_finite_candidate ==
    pc = "returned" /\ Converged /\ ~AllInfinite

(* |Ti[a]| + |Ti[b]|                                                       *)
AbsPair(TiV, a, b) == RAdd(RAbs(TiV[a]), RAbs(TiV[b]))
SameSideFiniteTransfer ==
    /\ AtLoopTest /\ pc' # "returned"
    /\ last'.executed /\ last'.finite /\ last'.same_side

C7_looser_tolerance_no_more_iterations ==
    (pc = "returned" /\ Len(Y_features) = N)
        => \A loose \in {t \in Tolerances : t < tolerance} :
              \A n \in iterations_at_exit(<<{SeedState}>>, loose) : n <= iter_

IsScenario ==
    /\ X_features = ScenarioX /\ weights = <<1>> /\ k = 2
    /\ tolerance = default_tolerance /\ labels = <<1, 1, 2, 2>>

(* C8.  Four-unit scenario: X = [[1],[1],[-1],[-1]], w = [1], k = 2, the   *)
(* default tolerance and seed labels 0,0,1,1 (Ti starts at [2,-2]); on any *)
(* geometry fit ends with max |Ti| < 2 and every row of M summing to 1.    *)
C8_scenario_moves_toward_balance ==
    (pc = "returned" /\ IsScenario)
        => /\ \A c \in 1..k : RLt(RAbs(Ti[c]), R(2))
           /\ \A i \in 1..N : RowSum(i) = One

(* The scenario run returned after at least one executed transfer.         *)
C8_scenario_returned ==
    pc = "returned" /\ IsScenario /\ iter_ > 0 /\ last.executed

ShapeMismatch == Len(Y_features) # N \/ Len(weights) # m

(* C9.  Shape mismatch fails fast: a call whose Y and X differ in rows, or *)
(* whose weights differ in length from the columns of X, ends in an error  *)
(* before the hard clustering is invoked and with no membership, centroid, *)
(* Tij or Ti produced.                                                     *)
C9_shape_mismatch_fails_fast ==
    (pc # "constructed" /\ ShapeMismatch)
        => /\ pc = "raised" /\ kmeans_calls = 0
           /\ membership = None /\ centroids = None /\ Tij = None /\ Ti = None

Mass(c) == RSum([i \in 1..N |-> membership[i][c]])
WeightedMean(c) ==
    [dd \in 1..Len(Y_features[1]) |->
        RDiv(RSum([i \in 1..N |-> RMul(R(Y_features[i][dd]), membership[i][c])]),
             Mass(c))]

(* C10.  Soft centroid update: after every iteration each centroid of a    *)
(* cluster with positive mass is the membership-weighted mean of Y,        *)
(* sum_i M[i,c]*Y[i] / sum_i M[i,c].                                       *)
C10_centroid_is_weighted_mean ==
    (pc \in {"loop", "returned"} /\ iter_ > 0 /\ Len(Y_features) = N)
        => \A c \in 1..k : RLt(Zero, Mass(c)) => centroids[c] = WeightedMean(c)

=============================================================================
